---- MODULE Spec2Model ----
(***************************************************************************)
(* StdoutLoggerBuilder (score::mw::log::rust): the C++ builder that        *)
(* configures the default logger of the Rust logging runtime through the   *)
(* extern "C" function set_default_logger.                                 *)
(*                                                                         *)
(* The model keeps the builder's five std::optional fields, the storage    *)
(* the call's pointer arguments address (with its lifetime), the position  *)
(* of the thread inside SetAsDefaultLogger, and what the receiving side    *)
(* reads through the pointers while the call is in progress.               *)
(***************************************************************************)
EXTENDS Integers, Sequences, FiniteSets, TLC

\* ------------------------------------------------------------------ bounds

\* Number of SetAsDefaultLogger invocations explored on one builder.
MaxCalls == 2

\* ------------------------------------------------------------- value model

\* std::optional<T>: the empty sequence is std::nullopt, <<v>> holds v.
Nullopt == <<>>
Some(v) == <<v>>
HasValue(o) == o # <<>>
Value(o) == o[1]

\* enum class LogLevel, in declaration order.
LogLevelEnum == <<"Off", "Fatal", "Error", "Warn", "Info", "Debug", "Verbose">>

Levels == {LogLevelEnum[i] : i \in 1..Len(LogLevelEnum)}

\* A wrong numbering: enumerators counted from one.
Ordinal_OneBased(l) == CHOOSE i \in 1..Len(LogLevelEnum) : LogLevelEnum[i] = l

\* The integer an enumerator without initializer has: its position in the
\* declaration, counted from zero. This is what the LogLevel object holds
\* in memory and what a const LogLevel* dereferences to.
Ordinal(l) == (CHOOSE i \in 1..Len(LogLevelEnum) : LogLevelEnum[i] = l) - 1

Ordinals == {Ordinal(l) : l \in Levels}

\* Bytes of the context texts explored, and the texts themselves (the empty
\* string, short texts, and the text of the example program).
Bytes == {"A", "B", "C", "D"}
ABCD == <<"A", "B", "C", "D">>
Texts == {<<>>, <<"A">>, <<"B", "A">>, ABCD}

\* A byte read from storage that is no longer live has either the value
\* that was last stored there or some other value; Junk stands for any other
\* value.
Junk == "?"

\* ------------------------------------------------------------ the storage

\* Pointer values of the call: the null pointer, the addresses of the
\* objects held inside the builder's optionals, and the buffer of the local
\* std::string `value` of SetAsDefaultLogger.
NULL == "nullptr"
AddrShowModule == "&show_module_.value()"
AddrShowFile == "&show_file_.value()"
AddrShowLine == "&show_line_.value()"
AddrLogLevel == "&log_level_.value()"
AddrValue == "value.c_str()"

VARIABLES
    context_,      \* std::optional<std::string>
    show_module_,  \* std::optional<bool>
    show_file_,    \* std::optional<bool>
    show_line_,    \* std::optional<bool>
    log_level_,    \* std::optional<LogLevel>
    alive,         \* the builder object exists
    value,         \* the local std::string `value`: [live, bytes]
    args,          \* the arguments of set_default_logger
    pc,            \* position of the thread
    received,      \* what the receiving side copied during the call
    installed,     \* a default logger is installed in the runtime
    calls,         \* number of set_default_logger calls made
    invocations,   \* number of SetAsDefaultLogger invocations started
    written,       \* per field, the argument of the most recent setter call
    op,            \* the operation of the builder that ran last
    prev           \* the previous boundary call, if no setter ran since

vars == <<context_, show_module_, show_file_, show_line_, log_level_, alive,
          value, args, pc, received, installed, calls, invocations,
          written, op, prev>>

builder == <<context_, show_module_, show_file_, show_line_, log_level_>>
callSide == <<value, args, received, installed, calls, invocations>>

FieldNames == {"context", "show_module", "show_file", "show_line", "log_level"}

Field(f) ==
    CASE f = "context" -> context_
      [] f = "show_module" -> show_module_
      [] f = "show_file" -> show_file_
      [] f = "show_line" -> show_line_
      [] f = "log_level" -> log_level_

NoArgs ==
    [context_ptr |-> NULL, context_size |-> 0, show_module |-> NULL,
     show_file |-> NULL, show_line |-> NULL, log_level |-> NULL]

NoReceived ==
    [context |-> Nullopt, show_module |-> Nullopt, show_file |-> Nullopt,
     show_line |-> Nullopt, log_level |-> Nullopt]

NoWritten ==
    [context |-> Nullopt, show_module |-> Nullopt, show_file |-> Nullopt,
     show_line |-> Nullopt, log_level |-> Nullopt]

\* Whether the storage a pointer addresses is live: an object inside an
\* optional lives while the builder exists and the optional is engaged, the
\* buffer of `value` lives while `value` is in scope.
IsLive(p) ==
    CASE p = AddrShowModule -> alive /\ HasValue(show_module_)
      [] p = AddrShowFile -> alive /\ HasValue(show_file_)
      [] p = AddrShowLine -> alive /\ HasValue(show_line_)
      [] p = AddrLogLevel -> alive /\ HasValue(log_level_)
      [] p = AddrValue -> value.live
      [] OTHER -> FALSE

\* What live storage holds.
Deref(p) ==
    CASE p = AddrShowModule -> Value(show_module_)
      [] p = AddrShowFile -> Value(show_file_)
      [] p = AddrShowLine -> Value(show_line_)
      [] p = AddrLogLevel -> Ordinal(Value(log_level_))
      [] p = AddrValue -> value.bytes

PointerArgs ==
    {args.context_ptr, args.show_module, args.show_file, args.show_line,
     args.log_level}

Init ==
    /\ context_ = Nullopt
    /\ show_module_ = Nullopt
    /\ show_file_ = Nullopt
    /\ show_line_ = Nullopt
    /\ log_level_ = Nullopt
    /\ alive = TRUE
    /\ value = [live |-> FALSE, bytes |-> <<>>]
    /\ args = NoArgs
    /\ pc = "idle"
    /\ received = NoReceived
    /\ installed \in BOOLEAN
    /\ calls = 0
    /\ invocations = 0
    /\ written = NoWritten
    /\ op = "construct"
    /\ prev = Nullopt

\* ------------------------------------------------------------ the setters

Context(context) ==
    /\ pc = "idle" /\ alive
    /\ context_' = Some(context)
    /\ written' = [written EXCEPT !.context = Some(context)]
    /\ op' = "Context"
    /\ prev' = Nullopt
    /\ UNCHANGED <<show_module_, show_file_, show_line_, log_level_, alive,
                   pc, callSide>>

ShowModule(show_module) ==
    /\ pc = "idle" /\ alive
    /\ show_module_' = Some(show_module)
    /\ written' = [written EXCEPT !.show_module = Some(show_module)]
    /\ op' = "ShowModule"
    /\ prev' = Nullopt
    /\ UNCHANGED <<context_, show_file_, show_line_, log_level_, alive,
                   pc, callSide>>

\* A copy-and-paste slip: the setter also stores into show_module_.
ShowFile_CopyPaste(show_file) ==
    /\ pc = "idle" /\ alive
    /\ show_file_' = Some(show_file)
    /\ show_module_' = Some(show_file)
    /\ written' = [written EXCEPT !.show_file = Some(show_file)]
    /\ op' = "ShowFile"
    /\ prev' = Nullopt
    /\ UNCHANGED <<context_, show_line_, log_level_, alive, pc, callSide>>

ShowFile(show_file) ==
    /\ pc = "idle" /\ alive
    /\ show_file_' = Some(show_file)
    /\ written' = [written EXCEPT !.show_file = Some(show_file)]
    /\ op' = "ShowFile"
    /\ prev' = Nullopt
    /\ UNCHANGED <<context_, show_module_, show_line_, log_level_, alive,
                   pc, callSide>>

ShowLine(show_line) ==
    /\ pc = "idle" /\ alive
    /\ show_line_' = Some(show_line)
    /\ written' = [written EXCEPT !.show_line = Some(show_line)]
    /\ op' = "ShowLine"
    /\ prev' = Nullopt
    /\ UNCHANGED <<context_, show_module_, show_file_, log_level_, alive,
                   pc, callSide>>

LogLevel(log_level) ==
    /\ pc = "idle" /\ alive
    /\ log_level_' = Some(log_level)
    /\ written' = [written EXCEPT !.log_level = Some(log_level)]
    /\ op' = "LogLevel"
    /\ prev' = Nullopt
    /\ UNCHANGED <<context_, show_module_, show_file_, show_line_, alive,
                   pc, callSide>>

\* ----------------------------------------------------- SetAsDefaultLogger

\* A slip: the address of a block-local copy is passed, as for the context.
OptPtr_Copy(field, addr) == IF HasValue(field) THEN AddrValue ELSE NULL

\* `field ? &field.value() : nullptr`
OptPtr(field, addr) == IF HasValue(field) THEN addr ELSE NULL

\* A slip: `if (context_ && !context_->empty())`.
ContextBlockEntered_NonEmpty(c) == HasValue(c) /\ Value(c) # <<>>

\* `if (context_)`
ContextBlockEntered(c) == HasValue(c)

\* Entry, and the block `if (context_) { ... }` up to its last statement:
\* `value` is a copy of the held string, context_ptr addresses the copy's
\* buffer and context_size is the copy's size.
SetAsDefaultLogger_Context ==
    /\ pc = "idle" /\ alive
    /\ invocations < MaxCalls
    /\ invocations' = invocations + 1
    /\ IF ContextBlockEntered(context_)
         THEN /\ value' = [live |-> TRUE, bytes |-> Value(context_)]
              /\ args' = [NoArgs EXCEPT !.context_ptr = AddrValue,
                                        !.context_size = Len(value'.bytes)]
         ELSE /\ value' = value
              /\ args' = NoArgs
    /\ pc' = "in_block"
    /\ op' = "SetAsDefaultLogger"
    /\ UNCHANGED <<builder, alive, received, installed, calls, written, prev>>

\* The closing brace of the block destroys `value`; then the four nullable
\* pointers are taken and set_default_logger is called.
SetAsDefaultLogger_Call ==
    /\ pc = "in_block"
    /\ value' = [value EXCEPT !.live = FALSE]
    /\ args' = [args EXCEPT
                  !.show_module = OptPtr(show_module_, AddrShowModule),
                  !.show_file = OptPtr(show_file_, AddrShowFile),
                  !.show_line = OptPtr(show_line_, AddrShowLine),
                  !.log_level = OptPtr(log_level_, AddrLogLevel)]
    /\ calls' = calls + 1
    /\ pc' = "in_call"
    /\ UNCHANGED <<builder, alive, received, installed, invocations, written,
                   op, prev>>

\* set_default_logger has returned; SetAsDefaultLogger returns.
SetAsDefaultLogger_Return ==
    /\ pc = "callee_returned"
    /\ prev' = Some([args |-> args, received |-> received])
    /\ args' = NoArgs
    /\ received' = NoReceived
    /\ pc' = "idle"
    /\ UNCHANGED <<builder, alive, value, installed, calls, invocations,
                   written, op>>

\* The builder goes out of scope.
Destroy ==
    /\ pc = "idle" /\ alive
    /\ alive' = FALSE
    /\ UNCHANGED <<builder, value, args, pc, received, installed, calls,
                   invocations, written, op, prev>>

\* ------------------------------------------- the receiving side of the call

\* In the initial state no logger is installed, or one was installed
\* elsewhere.

\* The outcomes of reading `size` bytes of storage that is not live.
StaleBytes(stale, size) ==
    {s \in [1..size -> Bytes \cup {Junk}] :
        \A i \in 1..size :
            s[i] = Junk \/ (i <= Len(stale) /\ s[i] = stale[i])}

ReadContext(ptr, size) ==
    IF ptr = NULL THEN {Nullopt}
    ELSE IF IsLive(ptr) THEN {Some(SubSeq(Deref(ptr), 1, size))}
    ELSE {Some(s) : s \in StaleBytes(value.bytes, size)}

ReadBool(ptr) ==
    IF ptr = NULL THEN {Nullopt}
    ELSE IF IsLive(ptr) THEN {Some(Deref(ptr))}
    ELSE {Some(b) : b \in BOOLEAN}

ReadLevel(ptr) ==
    IF ptr = NULL THEN {Nullopt}
    ELSE IF IsLive(ptr) THEN {Some(Deref(ptr))}
    ELSE {Some(n) : n \in Ordinals}

\* The receiving side copies every referenced value.
Copy ==
    \E c \in ReadContext(args.context_ptr, args.context_size),
       m \in ReadBool(args.show_module),
       f \in ReadBool(args.show_file),
       l \in ReadBool(args.show_line),
       v \in ReadLevel(args.log_level) :
        received' = [context |-> c, show_module |-> m, show_file |-> f,
                     show_line |-> l, log_level |-> v]

\* The call installs the default logger and returns nothing.
set_default_logger_Install ==
    /\ pc = "in_call"
    /\ Copy
    /\ installed' = TRUE
    /\ pc' = "callee_returned"
    /\ UNCHANGED <<builder, alive, value, args, calls, invocations, written,
                   op, prev>>

\* A logger is installed already and the runtime refuses; nothing is
\* reported to the caller.
set_default_logger_Refuse ==
    /\ pc = "in_call"
    /\ installed
    /\ Copy
    /\ installed' = installed
    /\ pc' = "callee_returned"
    /\ UNCHANGED <<builder, alive, value, args, calls, invocations, written,
                   op, prev>>

\* Reading through a pointer to storage that is not live may also end the
\* process.
set_default_logger_Fault ==
    /\ pc = "in_call"
    /\ \E p \in PointerArgs : p # NULL /\ ~IsLive(p)
    /\ pc' = "crashed"
    /\ UNCHANGED <<builder, alive, value, args, received, installed, calls,
                   invocations, written, op, prev>>

Next ==
    \/ \E context \in Texts : Context(context)
    \/ \E show_module \in BOOLEAN : ShowModule(show_module)
    \/ \E show_file \in BOOLEAN : ShowFile(show_file)
    \/ \E show_line \in BOOLEAN : ShowLine(show_line)
    \/ \E log_level \in Levels : LogLevel(log_level)
    \/ SetAsDefaultLogger_Context
    \/ SetAsDefaultLogger_Call
    \/ SetAsDefaultLogger_Return
    \/ Destroy
    \/ set_default_logger_Install
    \/ set_default_logger_Refuse
    \/ set_default_logger_Fault

Spec == Init /\ [][Next]_vars

\* ------------------------------------------------------------- the claims

\* The ordinals of the wire contract.
ExpectedOrdinal ==
    [Off |-> 0, Fatal |-> 1, Error |-> 2, Warn |-> 3, Info |-> 4, Debug |-> 5,
     Verbose |-> 6]

\* What the receiving side is to obtain for a field, given the most recent
\* setter call for it.
Expected(f) ==
    IF f = "log_level" /\ HasValue(written[f])
      THEN Some(ExpectedOrdinal[Value(written[f])])
      ELSE written[f]

SetterOf(f) ==
    CASE f = "context" -> "Context"
      [] f = "show_module" -> "ShowModule"
      [] f = "show_file" -> "ShowFile"
      [] f = "show_line" -> "ShowLine"
      [] f = "log_level" -> "LogLevel"

InCall == pc \in {"in_call", "callee_returned"}

\* C1: while set_default_logger is in progress, every non-null pointer
\* argument addresses storage that is still live.
C1_PointersLiveDuringCall ==
    InCall => \A p \in PointerArgs : p # NULL => IsLive(p)

\* C2: the call encodes exactly the fields configured through the setters
\* as non-null pointers (a non-empty context with a non-zero length), every
\* other field as a null pointer, and an absent context with length 0.
C2_PresenceEncoding ==
    InCall =>
        /\ (args.context_ptr # NULL) <=> HasValue(written.context)
        /\ (args.show_module # NULL) <=> HasValue(written.show_module)
        /\ (args.show_file # NULL) <=> HasValue(written.show_file)
        /\ (args.show_line # NULL) <=> HasValue(written.show_line)
        /\ (args.log_level # NULL) <=> HasValue(written.log_level)
        /\ ~HasValue(written.context) => args.context_size = 0
        /\ (HasValue(written.context) /\ Value(written.context) # <<>>)
              => args.context_size # 0

C2_Witness ==
    /\ pc = "in_call"
    /\ written.context = Some(<<>>)
    /\ written.show_module = Some(FALSE)
    /\ ~HasValue(written.show_file)
    /\ HasValue(written.log_level)
    /\ args.context_ptr # NULL
    /\ args.show_module # NULL
    /\ args.show_file = NULL

\* C3: after Context(T) the receiving side, reading context_size bytes at
\* context_ptr, obtains exactly T, and context_size is the length of T.
C3_ContextRoundTrip ==
    (pc = "callee_returned" /\ HasValue(written.context)) =>
        /\ args.context_size = Len(Value(written.context))
        /\ received.context = written.context

\* C4: the value delivered for each field is the argument of the most
\* recent setter call for that field.
C4_LastWriteWins ==
    pc = "callee_returned" => \A f \in FieldNames : received[f] = Expected(f)

\* C5: LogLevel(level) delivers a non-null pointer to the ordinal 0..6 of the
\* level, in the order Off, Fatal, Error, Warn, Info, Debug, Verbose, and the
\* mapping from level to ordinal is a bijection onto 0..6.
C5_LevelOrdinals ==
    /\ (InCall /\ HasValue(written.log_level)) =>
          /\ args.log_level # NULL
          /\ IsLive(args.log_level)
          /\ Deref(args.log_level) = ExpectedOrdinal[Value(written.log_level)]
    /\ (pc = "callee_returned" /\ HasValue(written.log_level)) =>
          received.log_level = Some(ExpectedOrdinal[Value(written.log_level)])
    /\ {Ordinal(l) : l \in Levels} = 0..6
    /\ \A l1, l2 \in Levels : Ordinal(l1) = Ordinal(l2) => l1 = l2

C5_Witness ==
    /\ pc = "callee_returned"
    /\ written.log_level = Some("Verbose")
    /\ received.log_level = Some(6)

\* C6: the example program's configuration, Context("ABCD"), ShowModule(true),
\* ShowFile(true), ShowLine(true), delivers the 4 bytes ABCD, three toggles
\* that are true and a null severity pointer.
C6_ExampleProgram ==
    (/\ pc = "callee_returned"
     /\ written = [context |-> Some(ABCD), show_module |-> Some(TRUE),
                   show_file |-> Some(TRUE), show_line |-> Some(TRUE),
                   log_level |-> Nullopt])
    => /\ args.context_ptr # NULL
       /\ args.context_size = 4
       /\ args.log_level = NULL
       /\ received = [context |-> Some(ABCD), show_module |-> Some(TRUE),
                      show_file |-> Some(TRUE), show_line |-> Some(TRUE),
                      log_level |-> Nullopt]

\* C7: a setter changes only its own field and makes no boundary call, a
\* field never set stays absent, and set_default_logger is called only from
\* SetAsDefaultLogger.
C7_SettersFrame ==
    /\ [](\A f \in FieldNames : ~HasValue(written[f]) => ~HasValue(Field(f)))
    /\ [][\A f \in FieldNames :
            Field(f)' # Field(f) =>
                /\ op' = SetterOf(f)
                /\ pc = "idle" /\ pc' = "idle"
                /\ callSide' = callSide]_vars
    /\ [][calls' # calls =>
            /\ op = "SetAsDefaultLogger"
            /\ pc = "in_block"
            /\ builder' = builder]_vars

C7_Witness ==
    /\ op = "ShowFile"
    /\ pc = "idle"
    /\ show_file_ = Some(TRUE)
    /\ ~HasValue(show_module_)
    /\ ~HasValue(context_)
    /\ calls = 0

\* C8: every invocation of SetAsDefaultLogger makes exactly one boundary
\* call and completes normally.
C8_OneCallCompletes ==
    /\ pc # "crashed"
    /\ pc = "in_block" => calls + 1 = invocations
    /\ pc # "in_block" => calls = invocations

\* C9: a second SetAsDefaultLogger with no setter in between issues a call
\* identical to the first: the same arguments, the same bytes and values
\* read through them.
C9_SecondCallIdentical ==
    (pc = "callee_returned" /\ HasValue(prev)) =>
        /\ args = Value(prev).args
        /\ received = Value(prev).received

\* C10: a non-null toggle or severity pointer addresses the builder's own
\* field, the receiving side reads the value the builder holds, and the
\* field's storage is live while the builder exists.
C10_PointersAddressBuilderFields ==
    /\ InCall =>
          /\ args.show_module \in {NULL, AddrShowModule}
          /\ args.show_file \in {NULL, AddrShowFile}
          /\ args.show_line \in {NULL, AddrShowLine}
          /\ args.log_level \in {NULL, AddrLogLevel}
          /\ \A p \in PointerArgs \ {NULL, args.context_ptr} : IsLive(p)
    /\ pc = "callee_returned" =>
          /\ received.show_module = show_module_
          /\ received.show_file = show_file_
          /\ received.show_line = show_line_
          /\ HasValue(log_level_) =>
                received.log_level = Some(Ordinal(Value(log_level_)))

C10_Witness ==
    /\ pc = "callee_returned"
    /\ args.show_module = AddrShowModule
    /\ args.log_level = AddrLogLevel
    /\ args.show_file = NULL
    /\ received.show_module = Some(FALSE)

====
